---------------------------- MODULE Spec2Model ----------------------------
(***************************************************************************)
(* Blackjack engine of app.py: Card, Deck, hand_value, BlackjackGame and   *)
(* the per-user store GAMES with the hit / stand / new request handlers.   *)
(*                                                                         *)
(* Three specifications share the module:                                  *)
(*   Spec      one BlackjackGame object driven sequentially through        *)
(*             start / player_hit / player_stand;                          *)
(*   SpecHand  hand_value applied to hands drawn from a bounded set;       *)
(*   SpecConc  two request threads of one user running the handlers        *)
(*             statement by statement over the shared GAMES map.           *)
(***************************************************************************)
EXTENDS Integers, Sequences, FiniteSets, TLC

(***************************************************************************)
(* Bounds                                                                  *)
(***************************************************************************)
\* Number of states of the modelled random generator: random.shuffle draws
\* the deck order from the generator state, and each Deck() advances it.
NumSeeds == 312

\* Longest hand given to hand_value in SpecHand.
MaxHandLen == 4

\* SpecPure: cards in a hand, and calls of hand_value on it.
MaxPureLen == 2
MaxCalls == 2

\* Generator states SpecConc may start from.
ConcSeeds == 3

\* Requests served one at a time before the two concurrent ones in SpecConc.
MaxSetup == 3

\* SpecRoutes: generator states at the start, and requests handled.
RouteSeeds == 3
MaxRequests == 4

\* SpecDeck: generator states the first deck is built under.
DeckSeeds == 2

(***************************************************************************)
(* Cards                                                                   *)
(***************************************************************************)
SUITS == <<"hearts", "diamonds", "clubs", "spades">>

RANKS == <<"2", "3", "4", "5", "6", "7", "8", "9", "10", "J", "Q", "K", "A">>

VALUES ==
    ("2" :> 2) @@ ("3" :> 3) @@ ("4" :> 4) @@ ("5" :> 5) @@ ("6" :> 6) @@
    ("7" :> 7) @@ ("8" :> 8) @@ ("9" :> 9) @@ ("10" :> 10) @@ ("J" :> 10) @@
    ("Q" :> 10) @@ ("K" :> 10) @@ ("A" :> 11)

Card(rank, suit) == [rank |-> rank, suit |-> suit]

\* Card.value
value(card) == VALUES[card.rank]

RankSet == {RANKS[i] : i \in 1..Len(RANKS)}

SuitSet == {SUITS[i] : i \in 1..Len(SUITS)}

AllCards == {Card(r, s) : r \in RankSet, s \in SuitSet}

(***************************************************************************)
(* Deck                                                                    *)
(***************************************************************************)
\* A card list of the right length built from the first two suits only.
NewCardsTwoSuits ==
    [i \in 1..(Len(SUITS) * Len(RANKS)) |->
        Card(RANKS[((i - 1) % Len(RANKS)) + 1],
             SUITS[(((i - 1) \div Len(RANKS)) % 2) + 1])]

\* A card list holding only the four 2s.
NewCardsOnlyTwos == [i \in 1..Len(SUITS) |-> Card(RANKS[1], SUITS[i])]

\* [Card(rank, suit) for suit in SUITS for rank in RANKS]
NewCards ==
    [i \in 1..(Len(SUITS) * Len(RANKS)) |->
        Card(RANKS[((i - 1) % Len(RANKS)) + 1], SUITS[((i - 1) \div Len(RANKS)) + 1])]

\* The strides coprime to 52: each gives a permutation of the 52 positions.
Strides ==
    <<1, 3, 5, 7, 9, 11, 15, 17, 19, 21, 23, 25,
      27, 29, 31, 33, 35, 37, 41, 43, 45, 47, 49, 51>>

\* random.shuffle(cards) under generator state seed: a permutation of cards.
\* The family is indexed by the generator state; position i receives the
\* card at position (i-1)*stride + offset of the input, modulo its length.
shuffle(cards, seed) ==
    LET n      == Len(cards)
        stride == Strides[(seed % Len(Strides)) + 1]
        offset == (17 * seed) % n
    IN  [i \in 1..n |-> cards[(((i - 1) * stride + offset) % n) + 1]]

\* The generator state after one shuffle.
NextRng(seed) == (seed + 1) % NumSeeds

\* Deck.__init__: the cards of a new deck built under generator state seed.
Deck(seed) == shuffle(NewCards, seed)

\* A deal that returns the card and leaves it on the deck (cards[-1]).
DeckAfterDealKeepsCard(cards) == cards

\* Deck.deal is self.cards.pop(): the last card is returned and removed.
DealtCard(cards) == cards[Len(cards)]

DeckAfterDeal(cards) == SubSeq(cards, 1, Len(cards) - 1)

(***************************************************************************)
(* hand_value                                                              *)
(***************************************************************************)
RECURSIVE SumValues(_)
\* sum(card.value() for card in cards)
SumValues(cards) ==
    IF cards = <<>> THEN 0 ELSE value(Head(cards)) + SumValues(Tail(cards))

RECURSIVE CountAces(_)
\* sum(1 for card in cards if card.rank == "A")
CountAces(cards) ==
    IF cards = <<>> THEN 0
    ELSE (IF Head(cards).rank = "A" THEN 1 ELSE 0) + CountAces(Tail(cards))

RECURSIVE AceLoop(_, _)
\* while total > 21 and aces > 0: total -= 10; aces -= 1
AceLoop(total, aces) ==
    IF total > 21 /\ aces > 0 THEN AceLoop(total - 10, aces - 1) ELSE total

\* hand_value with the loop written as an if: at most one Ace is downgraded.
hand_value_one_ace(cards) ==
    LET total == SumValues(cards)
    IN  IF total > 21 /\ CountAces(cards) > 0 THEN total - 10 ELSE total

\* A total that depends on the order: an Ace counts 11 as the first card
\* of the hand and 1 anywhere else.
hand_value_ace_high_first(cards) ==
    SumValues(cards) -
        10 * Cardinality({i \in 2..Len(cards) : cards[i].rank = "A"})

hand_value(cards) == AceLoop(SumValues(cards), CountAces(cards))

(***************************************************************************)
(* BlackjackGame                                                           *)
(***************************************************************************)
MsgNone == ""

MsgStarted == "Game started. Hit or stand?"

MsgBusted == "You busted! Dealer wins."

MsgWin == "You win!"

MsgDealerWins == "Dealer wins."

MsgPush == "Push (tie)."

\* BlackjackGame.__init__ under generator state seed (one Deck() is built).
BlackjackGame(seed) ==
    [deck         |-> Deck(seed),
     player_cards |-> <<>>,
     dealer_cards |-> <<>>,
     finished     |-> FALSE,
     message      |-> MsgNone]

\* start without self.deck = Deck(): the four cards come off the old deck.
start_keeps_deck(g, seed) ==
    LET d0 == g.deck
        n  == Len(d0)
    IN  [g EXCEPT !.deck = SubSeq(d0, 1, n - 4),
                  !.player_cards = <<d0[n], d0[n - 1]>>,
                  !.dealer_cards = <<d0[n - 2], d0[n - 3]>>,
                  !.finished = FALSE,
                  !.message = MsgStarted]

\* BlackjackGame.start under generator state seed.
start(g, seed) ==
    LET d0 == Deck(seed)
        p1 == DealtCard(d0)
        d1 == DeckAfterDeal(d0)
        p2 == DealtCard(d1)
        d2 == DeckAfterDeal(d1)
        q1 == DealtCard(d2)
        d3 == DeckAfterDeal(d2)
        q2 == DealtCard(d3)
        d4 == DeckAfterDeal(d3)
    IN  [g EXCEPT !.deck = d4,
                  !.player_cards = <<p1, p2>>,
                  !.dealer_cards = <<q1, q2>>,
                  !.finished = FALSE,
                  !.message = MsgStarted]

\* player_hit without the early return on a finished game.
player_hit_unguarded(g) ==
    LET cards == Append(g.player_cards, DealtCard(g.deck))
        g1    == [g EXCEPT !.player_cards = cards,
                           !.deck = DeckAfterDeal(g.deck)]
    IN  IF hand_value(cards) > 21
        THEN [g1 EXCEPT !.finished = TRUE, !.message = MsgBusted]
        ELSE g1

\* player_hit busting at 21 (>= for >).
player_hit_bust_at_21(g) ==
    IF g.finished THEN g
    ELSE LET cards == Append(g.player_cards, DealtCard(g.deck))
             g1    == [g EXCEPT !.player_cards = cards,
                                !.deck = DeckAfterDeal(g.deck)]
         IN  IF hand_value(cards) >= 21
             THEN [g1 EXCEPT !.finished = TRUE, !.message = MsgBusted]
             ELSE g1

\* player_hit taking the card from the other end of the deck (pop(0)).
player_hit_bottom_card(g) ==
    IF g.finished THEN g
    ELSE LET cards == Append(g.player_cards, Head(g.deck))
             g1    == [g EXCEPT !.player_cards = cards,
                                !.deck = Tail(g.deck)]
         IN  IF hand_value(cards) > 21
             THEN [g1 EXCEPT !.finished = TRUE, !.message = MsgBusted]
             ELSE g1

\* player_hit putting the card at the front of the hand (insert(0, card)).
player_hit_prepends(g) ==
    IF g.finished THEN g
    ELSE LET cards == <<DealtCard(g.deck)>> \o g.player_cards
             g1    == [g EXCEPT !.player_cards = cards,
                                !.deck = DeckAfterDeal(g.deck)]
         IN  IF hand_value(cards) > 21
             THEN [g1 EXCEPT !.finished = TRUE, !.message = MsgBusted]
             ELSE g1

\* player_hit letting a total of 22 play on (> 22 for > 21).
player_hit_bust_over_22(g) ==
    IF g.finished THEN g
    ELSE LET cards == Append(g.player_cards, DealtCard(g.deck))
             g1    == [g EXCEPT !.player_cards = cards,
                                !.deck = DeckAfterDeal(g.deck)]
         IN  IF hand_value(cards) > 22
             THEN [g1 EXCEPT !.finished = TRUE, !.message = MsgBusted]
             ELSE g1

\* BlackjackGame.player_hit
player_hit(g) ==
    IF g.finished THEN g
    ELSE LET cards == Append(g.player_cards, DealtCard(g.deck))
             g1    == [g EXCEPT !.player_cards = cards,
                                !.deck = DeckAfterDeal(g.deck)]
         IN  IF hand_value(cards) > 21
             THEN [g1 EXCEPT !.finished = TRUE, !.message = MsgBusted]
             ELSE g1

RECURSIVE DealerLoopHitsOn17(_)
\* The dealer loop drawing on 17 as well (<= for <).
DealerLoopHitsOn17(g) ==
    IF hand_value(g.dealer_cards) <= 17
    THEN DealerLoopHitsOn17([g EXCEPT !.dealer_cards = Append(@, DealtCard(g.deck)),
                                      !.deck = DeckAfterDeal(g.deck)])
    ELSE g

RECURSIVE DealerLoopHitsSoft17(_)
\* The dealer loop drawing also on a 17 that counts an Ace as 11.
DealerLoopHitsSoft17(g) ==
    LET total == hand_value(g.dealer_cards)
        hard  == SumValues(g.dealer_cards) - 10 * CountAces(g.dealer_cards)
    IN  IF total < 17 \/ (total = 17 /\ hard # total)
        THEN DealerLoopHitsSoft17([g EXCEPT !.dealer_cards = Append(@, DealtCard(g.deck)),
                                            !.deck = DeckAfterDeal(g.deck)])
        ELSE g

RECURSIVE DealerLoop(_)
\* while hand_value(self.dealer_cards) < 17:
\*     self.dealer_cards.append(self.deck.deal())
DealerLoop(g) ==
    IF hand_value(g.dealer_cards) < 17
    THEN DealerLoop([g EXCEPT !.dealer_cards = Append(@, DealtCard(g.deck)),
                              !.deck = DeckAfterDeal(g.deck)])
    ELSE g

\* The final comparison with >= for >: a tie counts as a win.
StandMessageTieWins(player_total, dealer_total) ==
    IF dealer_total > 21 \/ player_total >= dealer_total THEN MsgWin
    ELSE IF player_total < dealer_total THEN MsgDealerWins
    ELSE MsgPush

\* The message chosen by the if / elif / else at the end of player_stand.
StandMessage(player_total, dealer_total) ==
    IF dealer_total > 21 \/ player_total > dealer_total THEN MsgWin
    ELSE IF player_total < dealer_total THEN MsgDealerWins
    ELSE MsgPush

\* player_stand without the early return on a finished game.
player_stand_unguarded(g) ==
    LET g1 == DealerLoop(g)
    IN  [g1 EXCEPT !.finished = TRUE,
                   !.message = StandMessage(hand_value(g1.player_cards),
                                            hand_value(g1.dealer_cards))]

\* BlackjackGame.player_stand
player_stand(g) ==
    IF g.finished THEN g
    ELSE LET g1 == DealerLoop(g)
         IN  [g1 EXCEPT !.finished = TRUE,
                        !.message = StandMessage(hand_value(g1.player_cards),
                                                 hand_value(g1.dealer_cards))]

\* part in message, for the messages the engine sets and the parts the
\* request handlers look for.
Contains(message, part) ==
    \/ message = MsgWin /\ part = "You win"
    \/ message = MsgDealerWins /\ part = "Dealer wins"
    \/ message = MsgBusted /\ part \in {"busted", "Dealer wins"}
    \/ message = MsgStarted /\ part = "Hit or stand"
    \/ message = MsgPush /\ part = "Push"

\* A result with no push: whatever is not a win is a loss.
ResultTieIsLoss(message) ==
    IF Contains(message, "You win") THEN "win" ELSE "loss"

\* The result the stand handler derives from the final message.
Result(message) ==
    IF Contains(message, "You win") THEN "win"
    ELSE IF Contains(message, "Dealer wins") \/ Contains(message, "busted") THEN "loss"
    ELSE "push"

\* The outcome of a session: none while in progress.
Outcome(g) == IF g.finished THEN Result(g.message) ELSE "none"

(***************************************************************************)
(* State                                                                   *)
(***************************************************************************)
VARIABLES
    rng,        \* state of the random generator used by random.shuffle
    game,       \* Spec: the BlackjackGame object
    lastOp,     \* Spec: the method called last ("init" after construction)
    pre,        \* Spec: the object's fields before that call
    settled,    \* Spec: the outcome when the hand became finished, else "none"
    hand,       \* SpecHand: the hand passed to hand_value
    handTotal,  \* SpecHand: the value returned, -1 before the call
    given,      \* SpecPure: the hand as it was built, before any call
    returned,   \* SpecPure: the values hand_value returned, in call order
    heap,       \* SpecConc: the BlackjackGame objects created, by reference
    GAMES,      \* SpecConc: username -> reference of its game, 0 for none
    served,     \* SpecConc: requests served before the concurrent ones
    snap,       \* SpecConc: heap, GAMES and rng when the two requests arrive
    kind,       \* SpecConc: per thread, the route requested
    pc,         \* SpecConc: per thread, the statement to run next
    ret,        \* SpecConc: per thread, the statement after start() returns
    gref,       \* SpecConc: per thread, the local variable game
    player_total,   \* SpecConc: per thread, the local of player_stand
    dealer_total,   \* SpecConc: per thread, the local of player_stand
    seen,       \* SpecConc: per thread, what the index route read of the game
    ActionLog,  \* SpecRoutes: the rows added to ActionLog, oldest first
    HandHistory,    \* SpecRoutes: the rows added to HandHistory, oldest first
    handRows,   \* SpecRoutes: per user, HandHistory rows since the hand was dealt
    lastReq,    \* SpecRoutes: the request handled last
    prior,      \* SpecRoutes: heap, GAMES and rng before that request
    lastAnon,   \* SpecRoutes: the last request without a login, and its answer
    deck_cards, \* SpecDeck: the cards list of the Deck object
    fresh,      \* SpecDeck: the cards list as Deck.__init__ left it
    dealt,      \* SpecDeck: the cards deal() returned, first dealt first
    at,         \* SpecStand: the statement of player_stand to run next
    draws,      \* SpecStand: the cards the dealer loop of this call has dealt
    text,       \* SpecText: deck, hands and last result line of blackjack()
    seconds_in, \* SpecFormat: the argument of format_seconds_hhmmss
    hhmmss      \* SpecFormat: the string returned, as characters; <<>> before

engineVars == <<game, lastOp, pre, settled>>

handVars == <<hand, handTotal, given, returned>>

storeVars == <<heap, GAMES>>

threadVars == <<kind, pc, ret, gref, player_total, dealer_total, seen>>

concVars == <<storeVars, served, snap, threadVars>>

routeVars == <<ActionLog, HandHistory, handRows, lastReq, prior, lastAnon>>

deckVars == <<deck_cards, fresh, dealt>>

standVars == <<at, draws>>

\* The variables only SpecRoutes, SpecDeck and SpecStand change.
textVars == <<text>>

formatVars == <<seconds_in, hhmmss>>

restVars == <<routeVars, deckVars, standVars, textVars, formatVars>>

vars == <<rng, engineVars, handVars, concVars, restVars>>

Threads == {1, 2}

Users == {"alice", "bob"}

\* The variables of the other specifications at rest.
HandIdle == hand = <<>> /\ handTotal = -1 /\ given = <<>> /\ returned = <<>>

EngineIdle ==
    /\ game = BlackjackGame(0)
    /\ lastOp = "none"
    /\ pre = game
    /\ settled = "none"

World(h, G, r) == [heap |-> h, GAMES |-> G, rng |-> r]

\* A template call with the two totals in each other's place.
ViewTotalsSwapped(g) ==
    [player_cards |-> g.player_cards,
     dealer_cards |-> g.dealer_cards,
     player_total |-> hand_value(g.dealer_cards),
     dealer_total |-> hand_value(g.player_cards),
     message      |-> g.message,
     finished     |-> g.finished]

\* What the index route passes to the template: the two hands, their
\* totals, the message and the finished flag of the game.
View(g) ==
    [player_cards |-> g.player_cards,
     dealer_cards |-> g.dealer_cards,
     player_total |-> hand_value(g.player_cards),
     dealer_total |-> hand_value(g.dealer_cards),
     message      |-> g.message,
     finished     |-> g.finished]

\* Nothing read yet.
NoView == View(BlackjackGame(0))

StoreEmpty == heap = <<>> /\ GAMES = [u \in Users |-> 0]

ThreadsIdle ==
    /\ kind = [t \in Threads |-> "none"]
    /\ pc = [t \in Threads |-> "idle"]
    /\ ret = [t \in Threads |-> "none"]
    /\ gref = [t \in Threads |-> 0]
    /\ player_total = [t \in Threads |-> 0]
    /\ dealer_total = [t \in Threads |-> 0]
    /\ seen = [t \in Threads |-> NoView]

ConcIdle ==
    /\ StoreEmpty
    /\ served = 0
    /\ snap = World(heap, GAMES, 0)
    /\ ThreadsIdle

NoRequest ==
    [user |-> "none", kind |-> "none", game |-> 0, fetched |-> BlackjackGame(0),
     logs |-> 0, rows |-> 0, shown |-> NoView]

NoAnon == [kind |-> "none", response |-> "none"]

RoutesIdle ==
    /\ lastAnon = NoAnon
    /\ ActionLog = <<>>
    /\ HandHistory = <<>>
    /\ handRows = [u \in Users |-> 0]
    /\ lastReq = NoRequest
    /\ prior = World(<<>>, [u \in Users |-> 0], 0)

DeckIdle == deck_cards = <<>> /\ fresh = <<>> /\ dealt = <<>>

StandIdle == at = "idle" /\ draws = 0

TextIdle ==
    text = [deck |-> <<>>, player_hand |-> <<>>, dealer_hand |-> <<>>,
            printed |-> "", over |-> FALSE]

FormatIdle == seconds_in = 0 /\ hhmmss = <<>>

RestIdle == RoutesIdle /\ DeckIdle /\ StandIdle /\ TextIdle /\ FormatIdle

(***************************************************************************)
(* Spec: one BlackjackGame object, methods called one after the other      *)
(***************************************************************************)
\* The outcome a hand settled on: taken when a call finishes the hand.
Settle(before, after, was) ==
    IF ~before.finished /\ after.finished THEN Outcome(after) ELSE was

Init ==
    /\ \E seed \in 0..(NumSeeds - 1) :
          /\ game = BlackjackGame(seed)
          /\ rng = NextRng(seed)
    /\ lastOp = "init"
    /\ pre = game
    /\ settled = "none"
    /\ HandIdle
    /\ ConcIdle
    /\ RestIdle

Start ==
    /\ game' = start(game, rng)
    /\ rng' = NextRng(rng)
    /\ lastOp' = "start"
    /\ pre' = game
    /\ settled' = "none"
    /\ UNCHANGED <<handVars, concVars, restVars>>

Hit ==
    /\ game' = player_hit(game)
    /\ lastOp' = "hit"
    /\ pre' = game
    /\ settled' = Settle(game, game', settled)
    /\ UNCHANGED <<rng, handVars, concVars, restVars>>

Stand ==
    /\ game' = player_stand(game)
    /\ lastOp' = "stand"
    /\ pre' = game
    /\ settled' = Settle(game, game', settled)
    /\ UNCHANGED <<rng, handVars, concVars, restVars>>

Next == Start \/ Hit \/ Stand

Spec == Init /\ [][Next]_vars

(***************************************************************************)
(* Properties of the engine under Spec                                     *)
(***************************************************************************)
\* The elements of a sequence.
Range(seq) == {seq[i] : i \in 1..Len(seq)}

\* The call just made acted on a game that was in progress / finished.
CalledInProgress(op) == lastOp = op /\ ~pre.finished

CalledFinished(op) == lastOp = op /\ pre.finished

\* C1: player_hit and player_stand on a finished game change nothing: the
\* hands, the deck, the finished flag and the message are as before the
\* call, whether the game finished by a bust or by a stand.
C1_FinishedCallsAreNoOps ==
    (CalledFinished("hit") \/ CalledFinished("stand")) =>
        /\ game.player_cards = pre.player_cards
        /\ game.dealer_cards = pre.dealer_cards
        /\ game.deck = pre.deck
        /\ game.finished = pre.finished
        /\ game.message = pre.message

\* A stand was just called on a game a bust had finished.
C1_Witness == CalledFinished("stand") /\ pre.message = MsgBusted

\* C2: after player_stand on a game in progress the game is finished and
\* the message follows the table on the final hands: dealer over 21 is a
\* win; otherwise the higher total wins and equal totals push.
C2_StandOutcomeTable ==
    CalledInProgress("stand") =>
        LET playerTotal == hand_value(game.player_cards)
            dealerTotal == hand_value(game.dealer_cards)
        IN  /\ game.finished
            /\ dealerTotal > 21 =>
                    game.message = MsgWin /\ Outcome(game) = "win"
            /\ (dealerTotal <= 21 /\ playerTotal > dealerTotal) =>
                    game.message = MsgWin /\ Outcome(game) = "win"
            /\ (dealerTotal <= 21 /\ playerTotal < dealerTotal) =>
                    game.message = MsgDealerWins /\ Outcome(game) = "loss"
            /\ (dealerTotal <= 21 /\ playerTotal = dealerTotal) =>
                    game.message = MsgPush /\ Outcome(game) = "push"

\* A stand on a dealt game in progress ended in a push.
C2_Witness ==
    /\ CalledInProgress("stand")
    /\ pre.message = MsgStarted
    /\ hand_value(game.player_cards) = hand_value(game.dealer_cards)

\* C3: after player_stand on a game in progress the dealer total is 17 or
\* more, the dealer hand extends the one before the call, and every card
\* added was added to a hand totalling less than 17.
C3_DealerDrawsBelow17 ==
    CalledInProgress("stand") =>
        LET before == Len(pre.dealer_cards)
            after  == Len(game.dealer_cards)
        IN  /\ hand_value(game.dealer_cards) >= 17
            /\ after >= before
            /\ SubSeq(game.dealer_cards, 1, before) = pre.dealer_cards
            /\ \A k \in before..(after - 1) :
                   hand_value(SubSeq(game.dealer_cards, 1, k)) < 17

\* A stand on a dealt game made the dealer draw at least two cards.
C3_Witness ==
    /\ CalledInProgress("stand")
    /\ pre.message = MsgStarted
    /\ Len(game.dealer_cards) >= Len(pre.dealer_cards) + 2

\* C4: player_hit on a game in progress finishes it, with the bust message
\* and a loss, exactly when the new player total exceeds 21; otherwise the
\* game stays in progress with its message unchanged.
C4_HitBustsIffOver21 ==
    CalledInProgress("hit") =>
        /\ game.finished <=> hand_value(game.player_cards) > 21
        /\ game.finished =>
               game.message = MsgBusted /\ Outcome(game) = "loss"
        /\ ~game.finished =>
               game.message = pre.message /\ Outcome(game) = "none"

\* A hit on a dealt game in progress took the player over 21.
C4_Witness ==
    /\ CalledInProgress("hit")
    /\ pre.message = MsgStarted
    /\ hand_value(game.player_cards) > 21

\* C5: start, from any state, leaves two player cards, two dealer cards
\* and 48 cards in the deck, which together are the 52 cards of one deck;
\* the game is in progress with no outcome and the start message, whatever
\* the totals dealt.
C5_StartDealsFreshHand ==
    lastOp = "start" =>
        /\ Len(game.player_cards) = 2
        /\ Len(game.dealer_cards) = 2
        /\ Len(game.deck) = 48
        /\ Range(game.deck) \cup Range(game.player_cards)
               \cup Range(game.dealer_cards) = AllCards
        /\ Cardinality(AllCards) = 52
        /\ ~game.finished
        /\ Outcome(game) = "none"
        /\ game.message = MsgStarted

\* start was called on a finished game and dealt the player a two-card 21.
C5_Witness ==
    /\ lastOp = "start"
    /\ pre.finished
    /\ hand_value(game.player_cards) = 21

\* C7: a finished game stays finished with the outcome it settled on until
\* start is called: the outcome of a finished game is the one taken when
\* it finished, a game in progress has settled on none, and a game leaves
\* the finished state only through start.
C7_FinishedIsTerminal ==
    /\ game.finished <=> settled # "none"
    /\ game.finished => Outcome(game) = settled
    /\ (pre.finished /\ ~game.finished) => lastOp = "start"
    /\ (pre.finished /\ lastOp \in {"hit", "stand"}) =>
           game.finished /\ Outcome(game) = Outcome(pre)

\* A stand was called on a game a bust had finished, and the loss stands.
C7_Witness ==
    /\ CalledFinished("stand")
    /\ Contains(pre.message, "busted")
    /\ settled = "loss"
    /\ game.finished

\* C17: player_hit on a game in progress appends one card, the top card of
\* the deck, at the end of the player hand, takes exactly that card off the
\* deck and leaves the dealer hand alone.
C17_HitDealsTopCard ==
    CalledInProgress("hit") =>
        /\ game.player_cards = Append(pre.player_cards, pre.deck[Len(pre.deck)])
        /\ Len(game.deck) = Len(pre.deck) - 1
        /\ pre.deck = Append(game.deck, pre.deck[Len(pre.deck)])
        /\ game.dealer_cards = pre.dealer_cards

\* A third hit on a dealt game, which busts.
C17_Witness ==
    /\ CalledInProgress("hit")
    /\ Len(pre.player_cards) = 3
    /\ Len(pre.dealer_cards) = 2
    /\ game.finished

\* C18: player_stand on a game in progress whose dealer already totals 17
\* or more, an Ace counted as 11 included, deals the dealer nothing: the
\* dealer hand and the deck are as before the call.
C18_DealerStandsOn17 ==
    (CalledInProgress("stand") /\ hand_value(pre.dealer_cards) >= 17) =>
        /\ game.dealer_cards = pre.dealer_cards
        /\ game.deck = pre.deck

\* A stand against a dealer holding an Ace and a 6.
C18_Witness ==
    /\ CalledInProgress("stand")
    /\ Len(pre.dealer_cards) = 2
    /\ hand_value(pre.dealer_cards) = 17
    /\ \E i \in 1..2 : pre.dealer_cards[i].rank = "A"
    /\ game.finished

\* C26: a hit or a stand only adds cards at the end of a hand: the player
\* hand and the dealer hand before the call are the first cards, in order,
\* of the hands after it; stand leaves the player hand as it was and hit
\* the dealer hand.
C26_HandsAppendOnly ==
    lastOp \in {"hit", "stand"} =>
        LET IsPrefix(a, b) == Len(a) <= Len(b) /\ SubSeq(b, 1, Len(a)) = a
        IN  /\ IsPrefix(pre.player_cards, game.player_cards)
            /\ IsPrefix(pre.dealer_cards, game.dealer_cards)
            /\ lastOp = "stand" => game.player_cards = pre.player_cards
            /\ lastOp = "hit" => game.dealer_cards = pre.dealer_cards

\* A stand after a hit, in which the dealer drew.
C26_Witness ==
    /\ CalledInProgress("stand")
    /\ Len(pre.player_cards) = 3
    /\ Len(pre.dealer_cards) = 2
    /\ Len(game.dealer_cards) > 2

\* C29: with the methods called one after the other, a game in progress
\* has a player total of 21 or less; a player total over 21 means the game
\* is finished with the bust message, and the hand without its last card
\* totals 21 or less.
C29_PlayerTotalBounded ==
    LET playerTotal == hand_value(game.player_cards)
        n           == Len(game.player_cards)
    IN  /\ ~game.finished => playerTotal <= 21
        /\ playerTotal > 21 =>
              /\ game.finished
              /\ game.message = MsgBusted
              /\ n >= 1
              /\ hand_value(SubSeq(game.player_cards, 1, n - 1)) <= 21

\* A dealt game busted by its second hit, then called again.
C29_Witness ==
    /\ CalledFinished("hit")
    /\ game.message = MsgBusted
    /\ Len(game.player_cards) = 4
    /\ Len(game.dealer_cards) = 2
    /\ hand_value(game.player_cards) > 21

RECURSIVE DealerRunsOut(_, _)
\* Whether the dealer loop of player_stand, entered with this dealer hand
\* and this deck, comes to call deal() on an empty deck.
DealerRunsOut(dealer_cards, deck) ==
    IF hand_value(dealer_cards) >= 17 THEN FALSE
    ELSE IF deck = <<>> THEN TRUE
    ELSE DealerRunsOut(Append(dealer_cards, DealtCard(deck)), DeckAfterDeal(deck))

HandOf(ranks) ==
    [i \in 1..Len(ranks) |-> Card(ranks[i], SUITS[((i - 1) % Len(SUITS)) + 1])]

Hands ==
    {HandOf(ranks) : ranks \in UNION {[1..n -> RankSet] : n \in 0..MaxHandLen}}

InitHand ==
    /\ hand \in Hands
    /\ handTotal = -1
    /\ given = <<>>
    /\ returned = <<>>
    /\ rng = 0
    /\ EngineIdle
    /\ ConcIdle
    /\ RestIdle

Value ==
    /\ handTotal = -1
    /\ handTotal' = hand_value(hand)
    /\ UNCHANGED <<hand, given, returned, rng, engineVars, concVars, restVars>>

NextHand == Value

SpecHand == InitHand /\ [][NextHand]_vars

\* The value a rank counts for: 1 or 11 for an Ace, 10 for J, Q and K, the
\* number on the card otherwise.
RankChoices(rank) ==
    IF rank = "A" THEN {1, 11}
    ELSE IF rank \in {"J", "Q", "K"} THEN {10}
    ELSE {n \in 2..10 : RANKS[n - 1] = rank}

RECURSIVE Totals(_)
\* Every total of a hand, over the ways of counting its Aces.
Totals(cs) ==
    IF cs = <<>> THEN {0}
    ELSE {v + t : v \in RankChoices(Head(cs).rank), t \in Totals(Tail(cs))}

Maximum(S) == CHOOSE x \in S : \A y \in S : y <= x

Minimum(S) == CHOOSE x \in S : \A y \in S : x <= y

\* The best blackjack total: the largest total not over 21, or, when every
\* total is over 21, the one with every Ace counted as 1.
BestTotal(cs) ==
    LET good == {t \in Totals(cs) : t <= 21}
    IN  IF good # {} THEN Maximum(good) ELSE Minimum(Totals(cs))

\* C6: hand_value returns the best blackjack total of every hand; it
\* returns 19 for [10,9], 20 for [A,9], 15 for [A,9,5], 21 for [A,A,9] and
\* 12 for [A,A,A,9].
C6_HandValueIsBestTotal ==
    handTotal # -1 =>
        /\ handTotal = BestTotal(hand)
        /\ hand = HandOf(<<"10", "9">>) => handTotal = 19
        /\ hand = HandOf(<<"A", "9">>) => handTotal = 20
        /\ hand = HandOf(<<"A", "9", "5">>) => handTotal = 15
        /\ hand = HandOf(<<"A", "A", "9">>) => handTotal = 21
        /\ hand = HandOf(<<"A", "A", "A", "9">>) => handTotal = 12

\* hand_value was applied to [A,A,A,9], where all three Aces count as 1.
C6_Witness == hand = HandOf(<<"A", "A", "A", "9">>) /\ handTotal = 12

\* A lookup that constructs a game on every call.
get_game_for_user_always_creates(w, username) ==
    LET created == start(BlackjackGame(w.rng), NextRng(w.rng))
        h       == Append(w.heap, created)
    IN  [world |-> World(h, [w.GAMES EXCEPT ![username] = Len(h)],
                         NextRng(NextRng(w.rng))),
         game  |-> Len(h)]

\* A lookup that keeps every game under one key, whoever asks.
get_game_for_user_one_key(w, username) ==
    LET key == "alice"
    IN  IF w.GAMES[key] # 0
        THEN [world |-> w, game |-> w.GAMES[key]]
        ELSE LET created == start(BlackjackGame(w.rng), NextRng(w.rng))
                 h       == Append(w.heap, created)
             IN  [world |-> World(h, [w.GAMES EXCEPT ![key] = Len(h)],
                                  NextRng(NextRng(w.rng))),
                  game  |-> Len(h)]

\* A lookup that stores the game it constructs without calling start().
get_game_for_user_no_start(w, username) ==
    IF w.GAMES[username] # 0
    THEN [world |-> w, game |-> w.GAMES[username]]
    ELSE LET h == Append(w.heap, BlackjackGame(w.rng))
         IN  [world |-> World(h, [w.GAMES EXCEPT ![username] = Len(h)],
                              NextRng(w.rng)),
              game  |-> Len(h)]

(***************************************************************************)
(* The store and the request handlers, run one request at a time           *)
(***************************************************************************)
\* get_game_for_user in world w: the world after it and the game returned.
get_game_for_user(w, username) ==
    IF w.GAMES[username] # 0
    THEN [world |-> w, game |-> w.GAMES[username]]
    ELSE LET created == start(BlackjackGame(w.rng), NextRng(w.rng))
             h       == Append(w.heap, created)
         IN  [world |-> World(h, [w.GAMES EXCEPT ![username] = Len(h)],
                              NextRng(NextRng(w.rng))),
              game  |-> Len(h)]

\* The hit route, as far as it touches the store and the game.
hit(w, username) ==
    LET got == get_game_for_user(w, username)
    IN  [got.world EXCEPT !.heap[got.game] = player_hit(@)]

\* The stand route.
stand(w, username) ==
    LET got == get_game_for_user(w, username)
    IN  [got.world EXCEPT !.heap[got.game] = player_stand(@)]

\* The new route.
new_game(w, username) ==
    LET got == get_game_for_user(w, username)
    IN  [got.world EXCEPT !.heap[got.game] = start(@, got.world.rng),
                          !.rng = NextRng(@)]

\* The index route: it fetches the game and only reads it.
index(w, username) == get_game_for_user(w, username).world

\* The routes that call a method changing the game.
Mutating == {"hit", "stand", "new"}

Kinds == Mutating \cup {"index"}

\* One whole request of the given kind.
Request(w, username, k) ==
    CASE k = "hit"   -> hit(w, username)
      [] k = "stand" -> stand(w, username)
      [] k = "new"   -> new_game(w, username)
      [] k = "index" -> index(w, username)

(***************************************************************************)
(* SpecConc: two requests of one user run by two threads, statement by     *)
(* statement, after up to MaxSetup requests served one at a time           *)
(***************************************************************************)
\* The logged-in user both requests come from.
ThreadUser == "alice"

InitConc ==
    /\ rng \in 0..(ConcSeeds - 1)
    /\ StoreEmpty
    /\ served = 0
    /\ snap = World(heap, GAMES, 0)
    /\ ThreadsIdle
    /\ EngineIdle
    /\ HandIdle
    /\ RestIdle

\* A request handled with no other request in flight.
Serve ==
    /\ \A t \in Threads : pc[t] = "idle"
    /\ served < MaxSetup
    /\ \E k \in Kinds :
          LET w == Request(World(heap, GAMES, rng), ThreadUser, k)
          IN  /\ heap' = w.heap
              /\ GAMES' = w.GAMES
              /\ rng' = w.rng
    /\ served' = served + 1
    /\ UNCHANGED <<snap, threadVars, engineVars, handVars, restVars>>

\* Two requests arrive and are handed to the two threads.
Arrive ==
    /\ \A t \in Threads : pc[t] = "idle"
    /\ kind' \in [Threads -> Kinds]
    /\ pc' = [t \in Threads |-> "get"]
    /\ snap' = World(heap, GAMES, rng)
    /\ UNCHANGED <<rng, storeVars, served, ret, gref, player_total, dealer_total, seen,
                   engineVars, handVars, restVars>>

\* The first statement of the method the route calls on the game.
Entry(k) ==
    CASE k = "hit"   -> "hit_check"
      [] k = "stand" -> "stand_check"
      [] k = "new"   -> "start_deck"
      [] k = "index" -> "index_read"

\* game = GAMES.get(username); if game is None:
GetLookup(t) ==
    /\ pc[t] = "get"
    /\ gref' = [gref EXCEPT ![t] = GAMES[ThreadUser]]
    /\ pc' = [pc EXCEPT ![t] = IF GAMES[ThreadUser] = 0 THEN "create"
                               ELSE Entry(kind[t])]
    /\ ret' = [ret EXCEPT ![t] = "done"]
    /\ UNCHANGED <<rng, storeVars, served, snap, kind, seen, player_total, dealer_total,
                   engineVars, handVars, restVars>>

\* game = BlackjackGame(); the call game.start() follows.
GetCreate(t) ==
    /\ pc[t] = "create"
    /\ heap' = Append(heap, BlackjackGame(rng))
    /\ rng' = NextRng(rng)
    /\ gref' = [gref EXCEPT ![t] = Len(heap) + 1]
    /\ pc' = [pc EXCEPT ![t] = "start_deck"]
    /\ ret' = [ret EXCEPT ![t] = "store"]
    /\ UNCHANGED <<GAMES, served, snap, kind, seen, player_total, dealer_total,
                   engineVars, handVars, restVars>>

\* GAMES[username] = game; return game
GetStore(t) ==
    /\ pc[t] = "store"
    /\ GAMES' = [GAMES EXCEPT ![ThreadUser] = gref[t]]
    /\ pc' = [pc EXCEPT ![t] = Entry(kind[t])]
    /\ ret' = [ret EXCEPT ![t] = "done"]
    /\ UNCHANGED <<rng, heap, served, snap, kind, seen, gref, player_total, dealer_total,
                   engineVars, handVars, restVars>>

\* A statement of a method of the thread's game: the game's new fields, the
\* statement that follows, and everything but the game left alone.
MethodStep(t, from, g, to) ==
    /\ pc[t] = from
    /\ heap' = [heap EXCEPT ![gref[t]] = g]
    /\ pc' = [pc EXCEPT ![t] = to]
    /\ UNCHANGED <<GAMES, served, snap, kind, seen, ret, gref, player_total, dealer_total,
                   engineVars, handVars, restVars>>

\* self.deck = Deck()
StartDeck(t) ==
    /\ MethodStep(t, "start_deck", [heap[gref[t]] EXCEPT !.deck = Deck(rng)],
                  "start_player")
    /\ rng' = NextRng(rng)

\* self.player_cards = [self.deck.deal(), self.deck.deal()]
StartPlayer(t) ==
    LET g  == heap[gref[t]]
        d1 == DeckAfterDeal(g.deck)
    IN  /\ MethodStep(t, "start_player",
                      [g EXCEPT !.player_cards = <<DealtCard(g.deck), DealtCard(d1)>>,
                                !.deck = DeckAfterDeal(d1)],
                      "start_dealer")
        /\ UNCHANGED rng

\* self.dealer_cards = [self.deck.deal(), self.deck.deal()]
StartDealer(t) ==
    LET g  == heap[gref[t]]
        d1 == DeckAfterDeal(g.deck)
    IN  /\ MethodStep(t, "start_dealer",
                      [g EXCEPT !.dealer_cards = <<DealtCard(g.deck), DealtCard(d1)>>,
                                !.deck = DeckAfterDeal(d1)],
                      "start_finished")
        /\ UNCHANGED rng

\* self.finished = False
StartFinished(t) ==
    /\ MethodStep(t, "start_finished", [heap[gref[t]] EXCEPT !.finished = FALSE],
                  "start_message")
    /\ UNCHANGED rng

\* self.message = "Game started. Hit or stand?"; start returns.
StartMessage(t) ==
    /\ MethodStep(t, "start_message", [heap[gref[t]] EXCEPT !.message = MsgStarted],
                  ret[t])
    /\ UNCHANGED rng

\* player_hit: if self.finished: return
HitCheck(t) ==
    /\ MethodStep(t, "hit_check", heap[gref[t]],
                  IF heap[gref[t]].finished THEN "done" ELSE "hit_deal")
    /\ UNCHANGED rng

\* self.player_cards.append(self.deck.deal())
HitDeal(t) ==
    LET g == heap[gref[t]]
    IN  /\ MethodStep(t, "hit_deal",
                      [g EXCEPT !.player_cards = Append(@, DealtCard(g.deck)),
                                !.deck = DeckAfterDeal(g.deck)],
                      "hit_test")
        /\ UNCHANGED rng

\* if hand_value(self.player_cards) > 21:
HitTest(t) ==
    /\ MethodStep(t, "hit_test", heap[gref[t]],
                  IF hand_value(heap[gref[t]].player_cards) > 21
                  THEN "hit_finished" ELSE "done")
    /\ UNCHANGED rng

\* self.finished = True
HitFinished(t) ==
    /\ MethodStep(t, "hit_finished", [heap[gref[t]] EXCEPT !.finished = TRUE],
                  "hit_message")
    /\ UNCHANGED rng

\* self.message = "You busted! Dealer wins."
HitMessage(t) ==
    /\ MethodStep(t, "hit_message", [heap[gref[t]] EXCEPT !.message = MsgBusted],
                  "done")
    /\ UNCHANGED rng

\* player_stand: if self.finished: return
StandCheck(t) ==
    /\ MethodStep(t, "stand_check", heap[gref[t]],
                  IF heap[gref[t]].finished THEN "done" ELSE "stand_loop")
    /\ UNCHANGED rng

\* while hand_value(self.dealer_cards) < 17:
StandLoop(t) ==
    /\ MethodStep(t, "stand_loop", heap[gref[t]],
                  IF hand_value(heap[gref[t]].dealer_cards) < 17
                  THEN "stand_deal" ELSE "stand_finished")
    /\ UNCHANGED rng

\* self.dealer_cards.append(self.deck.deal())
StandDeal(t) ==
    LET g == heap[gref[t]]
    IN  /\ MethodStep(t, "stand_deal",
                      [g EXCEPT !.dealer_cards = Append(@, DealtCard(g.deck)),
                                !.deck = DeckAfterDeal(g.deck)],
                      "stand_loop")
        /\ UNCHANGED rng

\* self.finished = True
StandFinished(t) ==
    /\ MethodStep(t, "stand_finished", [heap[gref[t]] EXCEPT !.finished = TRUE],
                  "stand_player_total")
    /\ UNCHANGED rng

\* player_total = hand_value(self.player_cards)
StandPlayerTotal(t) ==
    /\ pc[t] = "stand_player_total"
    /\ player_total' = [player_total EXCEPT ![t] = hand_value(heap[gref[t]].player_cards)]
    /\ pc' = [pc EXCEPT ![t] = "stand_dealer_total"]
    /\ UNCHANGED <<rng, storeVars, served, snap, kind, seen, ret, gref, dealer_total,
                   engineVars, handVars, restVars>>

\* dealer_total = hand_value(self.dealer_cards)
StandDealerTotal(t) ==
    /\ pc[t] = "stand_dealer_total"
    /\ dealer_total' = [dealer_total EXCEPT ![t] = hand_value(heap[gref[t]].dealer_cards)]
    /\ pc' = [pc EXCEPT ![t] = "stand_message"]
    /\ UNCHANGED <<rng, storeVars, served, snap, kind, seen, ret, gref, player_total,
                   engineVars, handVars, restVars>>

\* The if / elif / else setting self.message.
StandSetMessage(t) ==
    /\ MethodStep(t, "stand_message",
                  [heap[gref[t]] EXCEPT
                      !.message = StandMessage(player_total[t], dealer_total[t])],
                  "done")
    /\ UNCHANGED rng

\* index: the return render_template(...) statement reads the hands, their
\* totals, the message and the finished flag of the game.
IndexRead(t) ==
    /\ pc[t] = "index_read"
    /\ seen' = [seen EXCEPT ![t] = View(heap[gref[t]])]
    /\ pc' = [pc EXCEPT ![t] = "done"]
    /\ UNCHANGED <<rng, storeVars, served, snap, kind, ret, gref, player_total,
                   dealer_total, engineVars, handVars, restVars>>

NextConc ==
    \/ Serve
    \/ Arrive
    \/ \E t \in Threads :
          \/ GetLookup(t)
          \/ GetCreate(t)
          \/ GetStore(t)
          \/ StartDeck(t)
          \/ StartPlayer(t)
          \/ StartDealer(t)
          \/ StartFinished(t)
          \/ StartMessage(t)
          \/ HitCheck(t)
          \/ HitDeal(t)
          \/ HitTest(t)
          \/ HitFinished(t)
          \/ HitMessage(t)
          \/ StandCheck(t)
          \/ StandLoop(t)
          \/ StandDeal(t)
          \/ StandFinished(t)
          \/ StandPlayerTotal(t)
          \/ StandDealerTotal(t)
          \/ StandSetMessage(t)
          \/ IndexRead(t)

SpecConc == InitConc /\ [][NextConc]_vars

(***************************************************************************)
(* Properties of concurrent requests under SpecConc                        *)
(***************************************************************************)
\* Both requests have arrived / have run to the end of the engine call.
Arrived == \A t \in Threads : pc[t] # "idle"

BothDone == \A t \in Threads : pc[t] = "done"

\* The session stored for the user in world w.
Session(w) == w.heap[w.GAMES[ThreadUser]]

\* The sessions left by the two requests run one after the other, first
\* then second, from the state they arrived in, under any generator state.
SerialSessions(first, second) ==
    {Session(Request(Request(World(snap.heap, snap.GAMES, r), ThreadUser, first),
                     ThreadUser, second)) : r \in 0..(NumSeeds - 1)}

\* C8: when the two requests have both run, the session (hands, deck,
\* finished flag, message) is one that running them one after the other,
\* in one of the two orders, produces.
C8_RequestsSerialized ==
    BothDone =>
        Session(World(heap, GAMES, rng))
            \in SerialSessions(kind[1], kind[2]) \cup SerialSessions(kind[2], kind[1])

\* Thread t is still inside get_game_for_user.
InGet(t) ==
    \/ pc[t] \in {"get", "create", "store"}
    \/ /\ pc[t] \in {"start_deck", "start_player", "start_dealer",
                     "start_finished", "start_message"}
       /\ ret[t] = "store"

\* C9: with two hit requests running on a session that was in progress
\* when they arrived, the player hand without its last card never totals
\* more than 21: no card is added to a busted hand.
C9_NoCardAfterBust ==
    ( /\ Arrived
      /\ \A t \in Threads : kind[t] = "hit"
      /\ snap.GAMES[ThreadUser] # 0
      /\ ~Session(snap).finished ) =>
        LET held == Session(World(heap, GAMES, rng)).player_cards
        IN  hand_value(SubSeq(held, 1, Len(held) - 1)) <= 21

\* C10: when the user had no session as the two requests arrived and both
\* calls of get_game_for_user have returned, both returned the same game,
\* it is the one stored for the user, and it is the only one created.
C10_OneSessionCreated ==
    ( /\ Arrived
      /\ snap.GAMES[ThreadUser] = 0
      /\ \A t \in Threads : ~InGet(t) ) =>
        /\ \A t \in Threads : gref[t] = GAMES[ThreadUser]
        /\ Len(heap) = 1

\* The other of the two threads.
Other(t) == CHOOSE o \in Threads : o # t

\* What a reader may see of the user's session around one whole request of
\* kind k: the session as the requests arrived, or as the request leaves it
\* (under any generator state).
WholeViews(k) ==
    {View(Session(snap))} \cup
    {View(Session(Request(World(snap.heap, snap.GAMES, r), ThreadUser, k))) :
        r \in 0..(NumSeeds - 1)}

\* C11: an index request running beside a hit, stand or new request on an
\* existing session reads the hands, status and message of the session as
\* it was before the other request or as it is after the whole of it.
C11_SnapshotNotTorn ==
    \A t \in Threads :
        ( /\ kind[t] = "index"
          /\ pc[t] = "done"
          /\ kind[Other(t)] \in Mutating
          /\ snap.GAMES[ThreadUser] # 0 ) =>
            seen[t] \in WholeViews(kind[Other(t)])

NoSession == [key \in {} |-> ""]

\* The session after a login as username.
SessionOf(username) == [key \in {"user"} |-> username]

\* A wrapper that plays for alice when nobody is logged in.
login_required_defaults_to_alice(sess, w, k) ==
    IF "user" \notin DOMAIN sess
    THEN [world |-> Request(w, "alice", k), response |-> "route"]
    ELSE [world |-> Request(w, sess["user"], k), response |-> "route"]

\* login_required around a game route: without "user" in the session the
\* answer is the redirect to login and the route is not run.
login_required(sess, w, k) ==
    IF "user" \notin DOMAIN sess
    THEN [world |-> w, response |-> "redirect login"]
    ELSE [world |-> Request(w, sess["user"], k), response |-> "route"]

(***************************************************************************)
(* SpecRoutes: requests of two logged-in users, handled one after the      *)
(* other, with the rows they add                                           *)
(***************************************************************************)
\* The usernames that have a User row: user is None for the others.
Registered == {"alice"}

\* ActionLog rows carrying the name of the route, "new" for /new.
LogRowsRouteName(username, k) ==
    IF username \in Registered /\ k \in Mutating
    THEN <<[user |-> username, action |-> k]>>
    ELSE <<>>

\* The ActionLog rows a request adds.
LogRows(username, k) ==
    IF username \in Registered /\ k \in Mutating
    THEN <<[user |-> username,
            action |-> CASE k = "hit" -> "hit"
                         [] k = "stand" -> "stand"
                         [] k = "new" -> "new_game"]>>
    ELSE <<>>

\* HandHistory rows where stand leaves a bust to the hit that caused it.
HistoryRowsStandSkipsBust(username, k, g) ==
    CASE k = "hit" ->
            IF g.finished /\ Contains(g.message, "busted") /\ username \in Registered
            THEN <<[user |-> username, result |-> "loss"]>>
            ELSE <<>>
      [] k = "stand" ->
            IF username \in Registered /\ g.finished /\ ~Contains(g.message, "busted")
            THEN <<[user |-> username, result |-> Result(g.message)]>>
            ELSE <<>>
      [] OTHER -> <<>>

\* HandHistory rows where /new records a loss for the hand given up.
HistoryRowsAbandonIsLoss(username, k, g) ==
    CASE k = "hit" ->
            IF g.finished /\ Contains(g.message, "busted") /\ username \in Registered
            THEN <<[user |-> username, result |-> "loss"]>>
            ELSE <<>>
      [] k = "stand" ->
            IF username \in Registered /\ g.finished
            THEN <<[user |-> username, result |-> Result(g.message)]>>
            ELSE <<>>
      [] k = "new" ->
            IF username \in Registered
            THEN <<[user |-> username, result |-> "loss"]>>
            ELSE <<>>
      [] OTHER -> <<>>

\* The HandHistory rows a request adds, g being the game after the method.
HistoryRows(username, k, g) ==
    CASE k = "hit" ->
            IF g.finished /\ Contains(g.message, "busted") /\ username \in Registered
            THEN <<[user |-> username, result |-> "loss"]>>
            ELSE <<>>
      [] k = "stand" ->
            IF username \in Registered /\ g.finished
            THEN <<[user |-> username, result |-> Result(g.message)]>>
            ELSE <<>>
      [] OTHER -> <<>>

InitRoutes ==
    /\ rng \in 0..(RouteSeeds - 1)
    /\ StoreEmpty
    /\ served = 0
    /\ snap = World(heap, GAMES, 0)
    /\ ThreadsIdle
    /\ RestIdle
    /\ EngineIdle
    /\ HandIdle

\* One whole request of user username: the game is fetched, the method is
\* called, the rows are added.  handRows counts the HandHistory rows of the
\* hand now in the user's session: start() begins a new hand.
Req(username, k) ==
    /\ served < MaxRequests
    /\ LET w      == World(heap, GAMES, rng)
           got    == get_game_for_user(w, username)
           after  == login_required(SessionOf(username), w, k).world
           logs   == LogRows(username, k)
           rows   == HistoryRows(username, k, after.heap[got.game])
           begun  == w.GAMES[username] = 0 \/ k = "new"
       IN  /\ heap' = after.heap
           /\ GAMES' = after.GAMES
           /\ rng' = after.rng
           /\ ActionLog' = ActionLog \o logs
           /\ HandHistory' = HandHistory \o rows
           /\ handRows' = [handRows EXCEPT ![username] =
                              (IF begun THEN 0 ELSE @) + Len(rows)]
           /\ lastReq' = [user |-> username, kind |-> k, game |-> got.game,
                          fetched |-> got.world.heap[got.game],
                          logs |-> Len(logs), rows |-> Len(rows),
                          shown |-> IF k = "index"
                                    THEN View(after.heap[got.game])
                                    ELSE NoView]
           /\ prior' = w
    /\ lastAnon' = NoAnon
    /\ served' = served + 1
    /\ UNCHANGED <<snap, threadVars, engineVars, handVars, deckVars, standVars, textVars, formatVars>>

\* A request of route k with no "user" in its session: the wrapper answers
\* itself and the route is not called.
ReqNoLogin(k) ==
    /\ served < MaxRequests
    /\ LET w   == World(heap, GAMES, rng)
           out == login_required(NoSession, w, k)
       IN  /\ heap' = out.world.heap
           /\ GAMES' = out.world.GAMES
           /\ rng' = out.world.rng
           /\ lastAnon' = [kind |-> k, response |-> out.response]
           /\ prior' = w
    /\ lastReq' = NoRequest
    /\ served' = served + 1
    /\ UNCHANGED <<ActionLog, HandHistory, handRows, snap, threadVars, engineVars,
                   handVars, deckVars, standVars, textVars, formatVars>>

NextRoutes ==
    \/ \E username \in Users : \E k \in Kinds : Req(username, k)
    \/ \E k \in Kinds : ReqNoLogin(k)

SpecRoutes == InitRoutes /\ [][NextRoutes]_vars

\* C12: a hand of a known user gets at most one HandHistory row, added by
\* the hit or stand request that finished the hand; a hit or stand request
\* that finds the session finished adds none.
C12_OneOutcomePerHand ==
    /\ \A u \in Registered : handRows[u] <= 1
    /\ (lastReq.user \in Registered /\ lastReq.kind \in {"hit", "stand"}) =>
          (lastReq.rows = 1 <=>
              ~lastReq.fetched.finished /\ heap[lastReq.game].finished)

\* A hit, stand or new request of a user who has a User row.
KnownRequest(k) == lastReq.kind = k /\ lastReq.user \in Registered

\* C22: a hit, stand or new request of a known user adds one ActionLog row,
\* the last of the table, with the user and 'hit', 'stand' or 'new_game',
\* also when the game was finished and the method did nothing.
C22_OneActionLogPerRequest ==
    /\ \A k \in Mutating :
          KnownRequest(k) =>
              /\ lastReq.logs = 1
              /\ Len(ActionLog) >= 1
              /\ ActionLog[Len(ActionLog)] =
                     [user |-> lastReq.user,
                      action |-> IF k = "new" THEN "new_game" ELSE k]
    /\ lastReq.kind = "index" => lastReq.logs = 0
    /\ Len(ActionLog) <= served

\* A /new, then a hit on a finished game that changed nothing.
C22_Witness ==
    /\ KnownRequest("hit")
    /\ lastReq.fetched.finished
    /\ heap = prior.heap
    /\ Len(ActionLog) = 3
    /\ ActionLog[1].action = "new_game"

\* C23: a stand request of a known user that finds the game in progress
\* (or creates it) adds one HandHistory row, the last of the table: 'win'
\* if the dealer busts or the player total is higher, 'loss' if the dealer
\* total is higher, 'push' if the totals are equal.
C23_StandRecordsOutcome ==
    (KnownRequest("stand") /\ ~lastReq.fetched.finished) =>
        LET g           == heap[lastReq.game]
            playerTotal == hand_value(g.player_cards)
            dealerTotal == hand_value(g.dealer_cards)
            outcome     == IF dealerTotal > 21 \/ playerTotal > dealerTotal THEN "win"
                           ELSE IF playerTotal < dealerTotal THEN "loss"
                           ELSE "push"
        IN  /\ g.finished
            /\ lastReq.rows = 1
            /\ handRows[lastReq.user] = 1
            /\ Len(HandHistory) >= 1
            /\ HandHistory[Len(HandHistory)] =
                   [user |-> lastReq.user, result |-> outcome]

\* A stand that created the game and recorded a push.
C23_Witness ==
    /\ KnownRequest("stand")
    /\ prior.GAMES[lastReq.user] = 0
    /\ HandHistory[Len(HandHistory)].result = "push"

\* C24: a stand request of a known user that finds the game finished adds
\* one more HandHistory row for that hand, with the result of the row the
\* hand already has, so the hand has two rows or more; this includes a hand
\* finished by a bust on a hit.
C24_StandOnFinishedRecordsAgain ==
    (KnownRequest("stand") /\ lastReq.fetched.finished) =>
        LET n == Len(HandHistory)
        IN  /\ lastReq.rows = 1
            /\ heap = prior.heap
            /\ handRows[lastReq.user] >= 2
            /\ n >= 2
            /\ HandHistory[n] = [user |-> lastReq.user,
                                 result |-> Result(lastReq.fetched.message)]
            /\ HandHistory[n - 1] = HandHistory[n]

\* A stand after a hit that busted: two loss rows for the hand.
C24_Witness ==
    /\ KnownRequest("stand")
    /\ lastReq.fetched.finished
    /\ lastReq.fetched.message = MsgBusted
    /\ handRows[lastReq.user] = 2
    /\ HandHistory[Len(HandHistory)].result = "loss"

\* C27: an index request of a user who has a game changes nothing: store,
\* game (hands, deck, finished flag, message) and generator are as before,
\* and so they are if it is repeated.  What it shows are the hands, flag and
\* message of the game, and as totals hand_value of those hands.
C27_IndexReadsOnly ==
    /\ (lastReq.kind = "index" /\ prior.GAMES[lastReq.user] # 0) =>
          LET g == heap[lastReq.game]
          IN  /\ World(heap, GAMES, rng) = prior
              /\ index(index(prior, lastReq.user), lastReq.user) = prior
              /\ lastReq.shown.player_cards = g.player_cards
              /\ lastReq.shown.dealer_cards = g.dealer_cards
              /\ lastReq.shown.finished = g.finished
              /\ lastReq.shown.message = g.message
              /\ lastReq.shown.player_total = hand_value(g.player_cards)
              /\ lastReq.shown.dealer_total = hand_value(g.dealer_cards)
    /\ \A u \in Users :
          GAMES[u] # 0 =>
              index(World(heap, GAMES, rng), u) = World(heap, GAMES, rng)

\* An index request on a game that a hit had finished.
C27_Witness ==
    /\ lastReq.kind = "index"
    /\ prior.GAMES[lastReq.user] # 0
    /\ Len(lastReq.shown.player_cards) = 3
    /\ lastReq.shown.finished
    /\ lastReq.shown.player_total # lastReq.shown.dealer_total

\* C31: a new request on a game in progress gives the hand up without a
\* HandHistory row: the request adds none, the new hand has none, and the
\* game holds a newly dealt hand in place of the old one.
C31_AbandonRecordsNothing ==
    (lastReq.kind = "new" /\ ~lastReq.fetched.finished) =>
        LET g == heap[lastReq.game]
        IN  /\ lastReq.rows = 0
            /\ handRows[lastReq.user] = 0
            /\ \A i \in 1..Len(HandHistory) :
                   HandHistory[i].user \in Registered
            /\ ~g.finished
            /\ g.message = MsgStarted
            /\ Len(g.player_cards) = 2
            /\ Len(g.dealer_cards) = 2
            /\ Len(g.deck) = 52 - 4

\* A known user gives up a hand of three cards.
C31_Witness ==
    /\ KnownRequest("new")
    /\ prior.GAMES[lastReq.user] # 0
    /\ ~lastReq.fetched.finished
    /\ Len(lastReq.fetched.player_cards) = 3
    /\ heap[lastReq.game].player_cards # SubSeq(lastReq.fetched.player_cards, 1, 2)

\* C34: a request of the index, hit, stand or new route with no logged-in
\* user is answered by the redirect to login; no game is created, and the
\* store and every game in it are as before.
C34_RoutesRequireLogin ==
    lastAnon.kind # "none" =>
        /\ lastAnon.response = "redirect login"
        /\ Len(heap) = Len(prior.heap)
        /\ GAMES = prior.GAMES
        /\ heap = prior.heap
        /\ rng = prior.rng

\* A hit without a login while alice has a game in progress.
C34_Witness ==
    /\ lastAnon.kind = "hit"
    /\ GAMES["alice"] # 0
    /\ ~heap[GAMES["alice"]].finished
    /\ GAMES["bob"] = 0
    /\ ActionLog # <<>>

\* C13: a lookup of a username that already has a game returns that game
\* and changes nothing: not the store, not the game, not the generator; and
\* a lookup repeated at once returns what the first one returned.
C13_LookupReturnsSameGame ==
    /\ (lastReq.kind # "none" /\ prior.GAMES[lastReq.user] # 0) =>
          /\ lastReq.game = prior.GAMES[lastReq.user]
          /\ GAMES = prior.GAMES
          /\ lastReq.fetched = prior.heap[lastReq.game]
          /\ lastReq.kind = "index" => heap = prior.heap /\ rng = prior.rng
    /\ \A u \in Users :
          LET first  == get_game_for_user(World(heap, GAMES, rng), u)
              second == get_game_for_user(first.world, u)
          IN  second.game = first.game /\ second.world = first.world

C13_Witness ==
    /\ served >= 3
    /\ lastReq.kind = "index"
    /\ prior.GAMES[lastReq.user] # 0
    /\ prior.heap[lastReq.game].finished

\* C14: the games of two usernames are two objects, and a request of one
\* user leaves the other user's entry and game (hands, deck, finished flag,
\* message) as they were.
C14_SessionsIndependent ==
    /\ \A u, v \in Users :
          (u # v /\ GAMES[u] # 0) => GAMES[u] # GAMES[v]
    /\ \A v \in Users :
          (lastReq.kind # "none" /\ v # lastReq.user) =>
              /\ GAMES[v] = prior.GAMES[v]
              /\ GAMES[v] # 0 => heap[GAMES[v]] = prior.heap[GAMES[v]]

C14_Witness ==
    /\ lastReq.kind \in Mutating
    /\ \A u \in Users : prior.GAMES[u] # 0
    /\ heap[lastReq.game] # prior.heap[lastReq.game]
    /\ \E v \in Users : v # lastReq.user /\ prior.heap[prior.GAMES[v]].finished

\* C15: a lookup of a username with no game constructs one, starts it and
\* stores it: the game returned is in progress with two player cards and
\* two dealer cards, and the username maps to it afterwards.
C15_MissingSessionIsCreated ==
    (lastReq.kind # "none" /\ prior.GAMES[lastReq.user] = 0) =>
        /\ lastReq.game # 0
        /\ GAMES[lastReq.user] = lastReq.game
        /\ lastReq.game \notin {prior.GAMES[u] : u \in Users}
        /\ ~lastReq.fetched.finished
        /\ Len(lastReq.fetched.player_cards) = 2
        /\ Len(lastReq.fetched.dealer_cards) = 2
        /\ lastReq.fetched.message = MsgStarted

C15_Witness ==
    /\ lastReq.kind = "index"
    /\ lastReq.user = "bob"
    /\ prior.GAMES["bob"] = 0
    /\ prior.GAMES["alice"] # 0
    /\ GAMES["bob"] # 0

\* C16: a username that maps to a game maps to that same game object in
\* every later state: no step removes the entry or puts another object in
\* its place (so the usernames in the store never get fewer).
C16_StoreKeepsSessions ==
    [][\A u \in Users : GAMES[u] # 0 => GAMES'[u] = GAMES[u]]_vars

(***************************************************************************)
(* SpecDeck: one Deck object, built and dealt from                         *)
(***************************************************************************)
InitDeck ==
    /\ \E seed \in 0..(DeckSeeds - 1) :
          /\ deck_cards = Deck(seed)
          /\ rng = NextRng(seed)
    /\ fresh = deck_cards
    /\ dealt = <<>>
    /\ RoutesIdle
    /\ StandIdle
    /\ TextIdle
    /\ FormatIdle
    /\ ConcIdle
    /\ EngineIdle
    /\ HandIdle

\* deck = Deck(): fresh keeps the cards as built, dealt the cards returned
\* by deal() since, in order.
NewDeck ==
    /\ deck_cards' = Deck(rng)
    /\ rng' = NextRng(rng)
    /\ fresh' = deck_cards'
    /\ dealt' = <<>>
    /\ UNCHANGED <<engineVars, handVars, concVars, routeVars, standVars, textVars, formatVars>>

\* deck.deal() on a deck that has a card left.
Deal ==
    /\ Len(deck_cards) > 0
    /\ dealt' = Append(dealt, DealtCard(deck_cards))
    /\ deck_cards' = DeckAfterDeal(deck_cards)
    /\ UNCHANGED <<rng, fresh, engineVars, handVars, concVars, routeVars, standVars, textVars, formatVars>>

NextDeck == NewDeck \/ Deal

SpecDeck == InitDeck /\ [][NextDeck]_vars

\* C19: a new Deck holds 52 cards: each of the 13 ranks 2..10, J, Q, K, A
\* in each of the 4 suits exactly once, and nothing else.
C19_FreshDeckIsCanonical ==
    LET ranks == {"2", "3", "4", "5", "6", "7", "8", "9", "10", "J", "Q", "K", "A"}
        suits == {"hearts", "diamonds", "clubs", "spades"}
    IN  /\ Len(fresh) = 52
        /\ \A i \in 1..Len(fresh) :
              /\ DOMAIN fresh[i] = {"rank", "suit"}
              /\ fresh[i].rank \in ranks
              /\ fresh[i].suit \in suits
        /\ \A r \in ranks : \A su \in suits :
              Cardinality({i \in 1..Len(fresh) :
                              fresh[i].rank = r /\ fresh[i].suit = su}) = 1

\* A deck just built, some decks after the first, in an order other than
\* the order of construction.
C19_Witness ==
    /\ deck_cards = fresh
    /\ dealt = <<>>
    /\ fresh # NewCards
    /\ rng = DeckSeeds + 3

\* C20: deal() returns the top card and removes just that card: the cards
\* left followed by the cards dealt, latest first, are the deck as built.
\* No card is dealt twice, and after 52 deals the 52 cards dealt are all
\* different and the deck is empty.
C20_DealRemovesTopCard ==
    LET n        == Len(dealt)
        undealt  == [i \in 1..n |-> dealt[n + 1 - i]]
    IN  /\ Len(deck_cards) = Len(fresh) - n
        /\ deck_cards \o undealt = fresh
        /\ \A i, j \in 1..n : i # j => dealt[i] # dealt[j]
        /\ \A i \in 1..n : \A j \in 1..Len(deck_cards) : dealt[i] # deck_cards[j]
        /\ n = 52 => /\ deck_cards = <<>>
                     /\ Cardinality({dealt[i] : i \in 1..n}) = 52

C20_Witness ==
    /\ Len(dealt) = 52
    /\ deck_cards = <<>>
    /\ dealt[1] = fresh[52]
    /\ dealt[52] = fresh[1]

(***************************************************************************)
(* SpecStand: player_stand run statement by statement on one game          *)
(***************************************************************************)
\* A loop test that never lets the dealer stop.
DealerMustDrawAlways(dealer_cards) == TRUE

\* while hand_value(self.dealer_cards) < 17
DealerMustDraw(dealer_cards) == hand_value(dealer_cards) < 17

InitStand ==
    /\ \E seed \in 0..(NumSeeds - 1) :
          /\ game = BlackjackGame(seed)
          /\ rng = NextRng(seed)
    /\ lastOp = "init"
    /\ pre = game
    /\ settled = "none"
    /\ StandIdle
    /\ RoutesIdle
    /\ DeckIdle
    /\ TextIdle
    /\ FormatIdle
    /\ ConcIdle
    /\ HandIdle

\* Between calls of player_stand: game.start()
StandStart ==
    /\ at = "idle"
    /\ game' = start(game, rng)
    /\ rng' = NextRng(rng)
    /\ lastOp' = "start"
    /\ pre' = game
    /\ UNCHANGED <<settled, standVars, handVars, concVars, routeVars, deckVars, textVars, formatVars>>

\* Between calls of player_stand: game.player_hit()
StandHit ==
    /\ at = "idle"
    /\ game' = player_hit(game)
    /\ lastOp' = "hit"
    /\ pre' = game
    /\ UNCHANGED <<rng, settled, standVars, handVars, concVars, routeVars, deckVars, textVars, formatVars>>

\* game.player_stand() is called.  pre is the game as the call found it.
StandCall ==
    /\ at = "idle"
    /\ at' = "check"
    /\ draws' = 0
    /\ pre' = game
    /\ lastOp' = "stand"
    /\ UNCHANGED <<rng, game, settled, handVars, concVars, routeVars, deckVars, textVars, formatVars>>

\* A statement of the call: the game's new fields and the statement next.
StandStatement(from, g, to) ==
    /\ at = from
    /\ game' = g
    /\ at' = to
    /\ UNCHANGED <<rng, lastOp, pre, settled, handVars, concVars, routeVars, deckVars, textVars, formatVars>>

\* if self.finished: return
StandTestFinished ==
    /\ StandStatement("check", game, IF game.finished THEN "return" ELSE "loop")
    /\ UNCHANGED draws

\* while hand_value(self.dealer_cards) < 17:
StandTestLoop ==
    /\ StandStatement("loop", game,
                      IF DealerMustDraw(game.dealer_cards) THEN "deal" ELSE "finished")
    /\ UNCHANGED draws

\* self.dealer_cards.append(self.deck.deal()): list.pop() raises IndexError
\* on an empty deck, which ends the call there.
StandDraw ==
    IF game.deck = <<>>
    THEN StandStatement("deal", game, "raised") /\ UNCHANGED draws
    ELSE /\ StandStatement("deal",
                           [game EXCEPT !.dealer_cards = Append(@, DealtCard(game.deck)),
                                        !.deck = DeckAfterDeal(game.deck)],
                           "loop")
         /\ draws' = draws + 1

\* self.finished = True
StandSetFinished ==
    /\ StandStatement("finished", [game EXCEPT !.finished = TRUE], "message")
    /\ UNCHANGED draws

\* The two totals and the if / elif / else setting self.message.
StandSetResult ==
    /\ StandStatement("message",
                      [game EXCEPT !.message =
                          StandMessage(hand_value(game.player_cards),
                                       hand_value(game.dealer_cards))],
                      "return")
    /\ UNCHANGED draws

\* The call is over, by return or by the exception.
StandReturn ==
    /\ at \in {"return", "raised"}
    /\ at' = "idle"
    /\ UNCHANGED <<rng, engineVars, draws, handVars, concVars, routeVars, deckVars, textVars, formatVars>>

\* The statements of a call in progress.
StandRuns ==
    \/ StandTestFinished
    \/ StandTestLoop
    \/ StandDraw
    \/ StandSetFinished
    \/ StandSetResult

NextStand == StandStart \/ StandHit \/ StandCall \/ StandRuns \/ StandReturn

\* A call that has begun keeps running: nothing in it waits.
SpecStand == InitStand /\ [][NextStand]_vars /\ WF_vars(StandRuns)

\* C25: a call of player_stand on a game in progress returns with the game
\* finished, after no more draws than the deck had cards when called; a
\* call never ends by the exception of an empty deck.
C25_StandTerminates ==
    /\ [](draws + Len(game.deck) = Len(pre.deck) \/ at = "idle")
    /\ [](at # "raised")
    /\ (at = "check" /\ ~game.finished) ~> (at = "return" /\ game.finished)

\* In the dealer loop, a draw that left the dealer total where it was or
\* lower: an Ace went from 11 to 1.
C25_Witness ==
    /\ at = "loop"
    /\ draws >= 1
    /\ hand_value(game.dealer_cards) <=
          hand_value(SubSeq(game.dealer_cards, 1, Len(game.dealer_cards) - 1))
    /\ Len(pre.player_cards) >= 3

(***************************************************************************)
(* SpecPure: hand_value called again and again on one list of cards        *)
(***************************************************************************)
\* The lists of up to MaxPureLen cards, of any ranks and suits.
PureHands == UNION {[1..n -> AllCards] : n \in 0..MaxPureLen}

InitPure ==
    /\ hand \in PureHands
    /\ given = hand
    /\ handTotal = -1
    /\ returned = <<>>
    /\ rng = 0
    /\ EngineIdle
    /\ ConcIdle
    /\ RestIdle

\* hand_value(hand): the function reads the cards and assigns only to its
\* locals total and aces, so the list is the same list after the call.
CallValue ==
    /\ Len(returned) < MaxCalls
    /\ handTotal' = hand_value(hand)
    /\ returned' = Append(returned, handTotal')
    /\ UNCHANGED <<hand, given, rng, engineVars, concVars, restVars>>

NextPure == CallValue

SpecPure == InitPure /\ [][NextPure]_vars

TextSuits == <<"Hearts", "Diamonds", "Clubs", "Spades">>

TextRanks == <<"2", "3", "4", "5", "6", "7", "8", "9", "10", "J", "Q", "K", "A">>

\* create_deck: [{'rank': rank, 'suit': suit} for suit in suits for rank in
\* ranks], shuffled under generator state seed.
create_deck(seed) ==
    shuffle([i \in 1..(Len(TextSuits) * Len(TextRanks)) |->
                [rank |-> TextRanks[((i - 1) % Len(TextRanks)) + 1],
                 suit |-> TextSuits[((i - 1) \div Len(TextRanks)) + 1]]],
            seed)

\* int(card['rank']) for the ranks written in digits.
IntOfRank(rank) ==
    CASE rank = "2" -> 2 [] rank = "3" -> 3 [] rank = "4" -> 4
      [] rank = "5" -> 5 [] rank = "6" -> 6 [] rank = "7" -> 7
      [] rank = "8" -> 8 [] rank = "9" -> 9 [] rank = "10" -> 10

RECURSIVE TextCount(_, _, _, _)
\* The for loop of calculate_hand_value from card i on: value and aces.
TextCount(cards, i, val, aces) ==
    IF i > Len(cards) THEN [value |-> val, aces |-> aces]
    ELSE IF cards[i].rank \in {"J", "Q", "K"}
         THEN TextCount(cards, i + 1, val + 10, aces)
    ELSE IF cards[i].rank = "A"
         THEN TextCount(cards, i + 1, val + 11, aces + 1)
    ELSE TextCount(cards, i + 1, val + IntOfRank(cards[i].rank), aces)

RECURSIVE TextAdjust(_, _)
\* while value > 21 and aces: value -= 10; aces -= 1
TextAdjust(val, aces) ==
    IF val > 21 /\ aces # 0 THEN TextAdjust(val - 10, aces - 1) ELSE val

\* calculate_hand_value without the adjustment for Aces.
calculate_hand_value_aces_high(cards) == TextCount(cards, 1, 0, 0).value

calculate_hand_value(cards) ==
    LET counted == TextCount(cards, 1, 0, 0)
    IN  TextAdjust(counted.value, counted.aces)

\* blackjack() up to its first input(): the deck is made and four cards
\* are dealt.
TextDealt(seed) ==
    LET deck == create_deck(seed)
        n    == Len(deck)
    IN  [deck        |-> SubSeq(deck, 1, n - 4),
         player_hand |-> <<deck[n], deck[n - 1]>>,
         dealer_hand |-> <<deck[n - 2], deck[n - 3]>>,
         printed     |-> "",
         over        |-> FALSE]

\* move == 'h': a card for the player, and the return on a bust.
TextHit(t) ==
    LET cards == Append(t.player_hand, t.deck[Len(t.deck)])
        t1    == [t EXCEPT !.player_hand = cards,
                           !.deck = SubSeq(t.deck, 1, Len(t.deck) - 1)]
    IN  IF calculate_hand_value(cards) > 21
        THEN [t1 EXCEPT !.printed = "You busted! Dealer wins.", !.over = TRUE]
        ELSE t1

\* The comparison of the two values at the end of blackjack().
TextCompare(t) ==
    LET player_value == calculate_hand_value(t.player_hand)
        dealer_value == calculate_hand_value(t.dealer_hand)
    IN  [t EXCEPT !.over = TRUE,
                  !.printed = IF player_value > dealer_value THEN "You win!"
                              ELSE IF player_value < dealer_value THEN "Dealer wins!"
                              ELSE "It's a tie!"]

RECURSIVE TextDealerTurn(_)
\* move == 's': the dealer's while loop, with its return on a dealer bust,
\* and then the comparison.
TextDealerTurn(t) ==
    IF calculate_hand_value(t.dealer_hand) < 17
    THEN LET cards == Append(t.dealer_hand, t.deck[Len(t.deck)])
             t1    == [t EXCEPT !.dealer_hand = cards,
                                !.deck = SubSeq(t.deck, 1, Len(t.deck) - 1)]
         IN  IF calculate_hand_value(cards) > 21
             THEN [t1 EXCEPT !.printed = "Dealer busted! You win!", !.over = TRUE]
             ELSE TextDealerTurn(t1)
    ELSE TextCompare(t)

\* Both programs shuffle under the same generator state and deal.
InitText ==
    /\ \E seed \in 0..(NumSeeds - 1) :
          /\ text = TextDealt(seed)
          /\ game = start(BlackjackGame(seed), seed)
          /\ rng = NextRng(seed)
    /\ lastOp = "start"
    /\ pre = game
    /\ settled = "none"
    /\ RoutesIdle
    /\ DeckIdle
    /\ StandIdle
    /\ FormatIdle
    /\ ConcIdle
    /\ HandIdle

\* The player answers h: blackjack() takes a card, the game gets player_hit.
TextMoveHit ==
    /\ ~text.over
    /\ text' = TextHit(text)
    /\ game' = player_hit(game)
    /\ lastOp' = "hit"
    /\ pre' = game
    /\ UNCHANGED <<rng, settled, handVars, concVars, routeVars, deckVars, standVars,
                   formatVars>>

\* The player answers s: blackjack() plays the dealer and compares, the
\* game gets player_stand.
TextMoveStand ==
    /\ ~text.over
    /\ text' = TextDealerTurn(text)
    /\ game' = player_stand(game)
    /\ lastOp' = "stand"
    /\ pre' = game
    /\ UNCHANGED <<rng, settled, handVars, concVars, routeVars, deckVars, standVars,
                   formatVars>>

NextText == TextMoveHit \/ TextMoveStand

SpecText == InitText /\ [][NextText]_vars

\* C33: given the same shuffle and the same choices, blackjack() and the
\* BlackjackGame hold the same cards (rank and suit, Hearts for hearts) in
\* the player hand, the dealer hand and the deck, are over together, and
\* end the same way: player bust, dealer bust, win, loss or tie; and
\* calculate_hand_value gives the total hand_value gives, on the hands
\* reached and on every hand of up to MaxPureLen ranks.
C33_TextDriverIsSameEngine ==
    LET SameCard(c, d) ==
            /\ c.rank = d.rank
            /\ \E i \in 1..Len(SUITS) : SUITS[i] = c.suit /\ TextSuits[i] = d.suit
        SameCards(cs, ds) ==
            /\ Len(cs) = Len(ds)
            /\ \A i \in 1..Len(cs) : SameCard(cs[i], ds[i])
        TextCards(ranks) ==
            [i \in 1..Len(ranks) |-> [rank |-> ranks[i], suit |-> "Spades"]]
        TextEnd ==
            CASE text.printed = "You busted! Dealer wins." -> "player bust"
              [] text.printed = "Dealer busted! You win!"  -> "dealer bust"
              [] text.printed = "You win!"                 -> "win"
              [] text.printed = "Dealer wins!"             -> "loss"
              [] text.printed = "It's a tie!"              -> "tie"
              [] OTHER                                     -> "none"
        GameEnd ==
            IF ~game.finished THEN "none"
            ELSE IF game.message = MsgBusted THEN "player bust"
            ELSE IF game.message = MsgWin
                 THEN IF hand_value(game.dealer_cards) > 21
                      THEN "dealer bust" ELSE "win"
            ELSE IF game.message = MsgDealerWins THEN "loss"
            ELSE "tie"
    IN  /\ SameCards(game.player_cards, text.player_hand)
        /\ SameCards(game.dealer_cards, text.dealer_hand)
        /\ SameCards(game.deck, text.deck)
        /\ text.over <=> game.finished
        /\ TextEnd = GameEnd
        /\ calculate_hand_value(text.player_hand) = hand_value(game.player_cards)
        /\ calculate_hand_value(text.dealer_hand) = hand_value(game.dealer_cards)
        /\ \A ranks \in UNION {[1..n -> RankSet] : n \in 0..MaxPureLen} \cup
                        {<<"A", "A", "A", "9">>, <<"A", "A", "A", "A", "K", "7">>,
                         <<"10", "9", "5">>, <<"A", "9", "5">>} :
              calculate_hand_value(TextCards(ranks)) = hand_value(HandOf(ranks))

\* A hit, then a stand on which the dealer drew and went over 21.
C33_Witness ==
    /\ text.over
    /\ text.printed = "Dealer busted! You win!"
    /\ Len(text.player_hand) = 3
    /\ Len(game.dealer_cards) >= 3
    /\ game.message = MsgWin

(***************************************************************************)
(* SpecFormat: format_seconds_hhmmss applied to a number of seconds        *)
(***************************************************************************)
\* The largest number of whole hours in an argument.
MaxHours == 100

\* The characters of the decimal digits, digit d at index d + 1.
DigitChars == <<"0", "1", "2", "3", "4", "5", "6", "7", "8", "9">>

\* str(n) for n >= 0: the decimal digits, most significant first.
RECURSIVE Decimal(_)
Decimal(n) ==
    IF n < 10 THEN <<DigitChars[n + 1]>>
    ELSE Decimal(n \div 10) \o <<DigitChars[(n % 10) + 1]>>

\* The format specification 02d for n >= 0: the decimal digits, filled with
\* zeros on the left up to width 2, never cut.
RECURSIVE ZeroFill(_, _)
ZeroFill(digits, width) ==
    IF Len(digits) < width THEN ZeroFill(<<"0">> \o digits, width)
    ELSE digits

Format02d(n) == ZeroFill(Decimal(n), 2)

format_seconds_hhmmss_minutes_of_total(seconds) ==
    LET hours == seconds \div 3600
        minutes == seconds \div 60
        secs == seconds % 60
    IN  Format02d(hours) \o <<":">> \o Format02d(minutes) \o <<":">>
            \o Format02d(secs)

format_seconds_hhmmss(seconds) ==
    LET hours == seconds \div 3600
        minutes == (seconds % 3600) \div 60
        secs == seconds % 60
    IN  Format02d(hours) \o <<":">> \o Format02d(minutes) \o <<":">>
            \o Format02d(secs)

InitFormat ==
    /\ seconds_in \in 0..(MaxHours * 3600 + 3599)
    /\ hhmmss = <<>>
    /\ rng = 0
    /\ EngineIdle
    /\ HandIdle
    /\ ConcIdle
    /\ RoutesIdle
    /\ DeckIdle
    /\ StandIdle
    /\ TextIdle

CallFormat ==
    /\ hhmmss = <<>>
    /\ hhmmss' = format_seconds_hhmmss(seconds_in)
    /\ UNCHANGED <<seconds_in, rng, engineVars, handVars, concVars, routeVars,
                   deckVars, standVars, textVars>>

NextFormat == CallFormat

SpecFormat == InitFormat /\ [][NextFormat]_vars

\* Reading the string back: the positions of the colons, the fields between
\* them and the number a field of digits denotes.
Colons(str) == {i \in 1..Len(str) : str[i] = ":"}

FieldsOf(str) ==
    LET c1 == CHOOSE i \in Colons(str) : \A j \in Colons(str) : i <= j
        c2 == CHOOSE i \in Colons(str) : \A j \in Colons(str) : j <= i
    IN  <<SubSeq(str, 1, c1 - 1), SubSeq(str, c1 + 1, c2 - 1),
          SubSeq(str, c2 + 1, Len(str))>>

IsDigits(field) ==
    \A i \in 1..Len(field) : \E d \in 1..10 : field[i] = DigitChars[d]

RECURSIVE NumberOf(_)
NumberOf(field) ==
    IF field = <<>> THEN 0
    ELSE NumberOf(SubSeq(field, 1, Len(field) - 1)) * 10
            + (CHOOSE d \in 0..9 : DigitChars[d + 1] = field[Len(field)])

\* C35: for every non-negative number of seconds the string returned has
\* three fields of digits separated by two colons, each of at least two
\* digits; the minutes and seconds fields denote numbers in 0..59 and
\* hours*3600 + minutes*60 + seconds is the argument; 0 gives 00:00:00 and
\* 3661 gives 01:01:01.
C35_FormatFieldsAddUp ==
    hhmmss # <<>> =>
        /\ Cardinality(Colons(hhmmss)) = 2
        /\ LET f == FieldsOf(hhmmss)
           IN  /\ \A i \in 1..3 : Len(f[i]) >= 2 /\ IsDigits(f[i])
               /\ NumberOf(f[2]) \in 0..59
               /\ NumberOf(f[3]) \in 0..59
               /\ NumberOf(f[1]) * 3600 + NumberOf(f[2]) * 60 + NumberOf(f[3])
                      = seconds_in
        /\ seconds_in = 0 =>
               hhmmss = <<"0", "0", ":", "0", "0", ":", "0", "0">>
        /\ seconds_in = 3661 =>
               hhmmss = <<"0", "1", ":", "0", "1", ":", "0", "1">>

\* Three hours digits, and minutes and seconds that both need a zero filled in.
C35_Witness ==
    /\ seconds_in = 100 * 3600 + 5 * 60 + 9
    /\ hhmmss = <<"1", "0", "0", ":", "0", "5", ":", "0", "9">>

=============================================================================
